---- MODULE Spec2Model ----
(***************************************************************************)
(* Model of the CSV Data Cleaner API (src/app.py): one POST /clean request *)
(* from the decoded payload to the JSON response.                          *)
(*                                                                         *)
(* Python values are modelled as follows.  A str is the sequence of its    *)
(* characters (one-character strings), so that strip, split, startswith    *)
(* and slicing are computed and not assumed.  None is the one-element      *)
(* sequence <<"NONE">> and an int n is <<"INT">> followed by its decimal   *)
(* digits; neither can be confused with a str, whose elements are single   *)
(* characters.  A dict is a function from its keys to values.              *)
(***************************************************************************)
EXTENDS Integers, Sequences, FiniteSets, TLC

VARIABLES request, fieldnames, lines, pc, rows, csv_format, idx,
          cleaned_rows, exc, response

vars == <<request, fieldnames, lines, pc, rows, csv_format, idx,
          cleaned_rows, exc, response>>

(***************************************************************************)
(* Bounds of the explored inputs.                                          *)
(***************************************************************************)
MaxRows == 3

MaxTokens == 3

(***************************************************************************)
(* Python values and the str methods the program calls.                    *)
(***************************************************************************)
None == <<"NONE">>

EmptyStr == <<>>

IsNone(v) == v = None

IsPyInt(v) == Len(v) >= 1 /\ v[1] = "INT"

IsStr(v) == ~IsNone(v) /\ ~IsPyInt(v)

\* bool(v) for a str or None: only None and '' are falsy
Truthy(v) == v # None /\ v # EmptyStr

\* Python's `a or b`
PyOr(a, b) == IF Truthy(a) THEN a ELSE b

\* dict.get(key): the value, or None when the key is absent
Get(row, key) == IF key \in DOMAIN row THEN row[key] ELSE None

IsSpace(c) == c \in {" ", "\t", "\n", "\r"}

RECURSIVE LStrip(_)
LStrip(s) ==
    IF s # <<>> /\ IsSpace(Head(s)) THEN LStrip(Tail(s)) ELSE s

RECURSIVE RStrip(_)
RStrip(s) ==
    IF s # <<>> /\ IsSpace(s[Len(s)]) THEN RStrip(SubSeq(s, 1, Len(s) - 1)) ELSE s

\* str.strip()
Strip(s) == RStrip(LStrip(s))

\* str.startswith(prefix)
StartsWith(s, prefix) ==
    Len(s) >= Len(prefix) /\ SubSeq(s, 1, Len(prefix)) = prefix

\* s[n:]
SliceFrom(s, n) == SubSeq(s, n + 1, Len(s))

RECURSIVE SplitWsAcc(_, _, _)
SplitWsAcc(s, cur, acc) ==
    IF s = <<>>
    THEN IF cur = <<>> THEN acc ELSE Append(acc, cur)
    ELSE IF IsSpace(Head(s))
         THEN SplitWsAcc(Tail(s), <<>>, IF cur = <<>> THEN acc ELSE Append(acc, cur))
         ELSE SplitWsAcc(Tail(s), Append(cur, Head(s)), acc)

\* str.split(): the maximal runs of non-whitespace
SplitWs(s) == SplitWsAcc(s, <<>>, <<>>)

RECURSIVE SplitOnAcc(_, _, _, _)
SplitOnAcc(s, ch, cur, acc) ==
    IF s = <<>>
    THEN Append(acc, cur)
    ELSE IF Head(s) = ch
         THEN SplitOnAcc(Tail(s), ch, <<>>, Append(acc, cur))
         ELSE SplitOnAcc(Tail(s), ch, Append(cur, Head(s)), acc)

\* str.split(ch): the pieces between separators, empty pieces kept
SplitOn(s, ch) == SplitOnAcc(s, ch, <<>>, <<>>)

RECURSIVE Join(_, _)
\* sep.join(parts)
Join(sep, parts) ==
    IF parts = <<>> THEN <<>>
    ELSE IF Len(parts) = 1 THEN parts[1]
    ELSE parts[1] \o sep \o Join(sep, Tail(parts))

\* `ch in s`
Contains(s, ch) == \E k \in 1..Len(s) : s[k] = ch

LowerChar(c) ==
    CASE c = "N" -> "n"
      [] c = "A" -> "a"
      [] OTHER -> c

\* str.lower(), on the letters the compared literal 'nan' is made of
Lower(s) == [k \in 1..Len(s) |-> LowerChar(s[k])]

Digits == {"0", "1", "2", "3", "4", "5", "6", "7", "8", "9"}

DigitVal(c) ==
    CASE c = "0" -> 0 [] c = "1" -> 1 [] c = "2" -> 2 [] c = "3" -> 3
      [] c = "4" -> 4 [] c = "5" -> 5 [] c = "6" -> 6 [] c = "7" -> 7
      [] c = "8" -> 8 [] c = "9" -> 9

RECURSIVE DigitsVal(_)
DigitsVal(s) ==
    IF s = <<>> THEN 0 ELSE 10 * DigitsVal(SubSeq(s, 1, Len(s) - 1)) + DigitVal(s[Len(s)])

IsDigits(s) == s # <<>> /\ \A k \in 1..Len(s) : s[k] \in Digits

Unsigned(s) == IF s # <<>> /\ Head(s) \in {"+", "-"} THEN Tail(s) ELSE s

\* int(s) succeeds: optional surrounding whitespace, optional sign, digits
IntOk(s) == IsDigits(Unsigned(Strip(s)))

\* the value of int(s) when it succeeds
IntVal(s) ==
    LET t == Strip(s)
    IN  IF t # <<>> /\ Head(t) = "-" THEN 0 - DigitsVal(Tail(t)) ELSE DigitsVal(Unsigned(t))

(***************************************************************************)
(* datetime(year, month, day) and date.weekday()                           *)
(***************************************************************************)
IsLeap(y) == y % 4 = 0 /\ (y % 100 # 0 \/ y % 400 = 0)

DaysInMonth(y, m) ==
    IF m = 2 THEN (IF IsLeap(y) THEN 29 ELSE 28)
    ELSE IF m \in {4, 6, 9, 11} THEN 30 ELSE 31

RECURSIVE DaysBeforeMonth(_, _)
DaysBeforeMonth(y, m) ==
    IF m <= 1 THEN 0 ELSE DaysBeforeMonth(y, m - 1) + DaysInMonth(y, m - 1)

DaysBeforeYear(y) ==
    LET p == y - 1 IN p * 365 + (p \div 4) - (p \div 100) + (p \div 400)

\* datetime(y, m, d) succeeds (MINYEAR = 1, MAXYEAR = 9999)
DateValid(y, m, d) ==
    /\ y >= 1 /\ y <= 9999
    /\ m >= 1 /\ m <= 12
    /\ d >= 1 /\ d <= DaysInMonth(y, m)

\* date.weekday(): Monday is 0
Weekday(y, m, d) == (DaysBeforeYear(y) + DaysBeforeMonth(y, m) + d + 6) % 7

days ==
    << <<"M", "o", "n", "d", "a", "y">>,
       <<"T", "u", "e", "s", "d", "a", "y">>,
       <<"W", "e", "d", "n", "e", "s", "d", "a", "y">>,
       <<"T", "h", "u", "r", "s", "d", "a", "y">>,
       <<"F", "r", "i", "d", "a", "y">>,
       <<"S", "a", "t", "u", "r", "d", "a", "y">>,
       <<"S", "u", "n", "d", "a", "y">> >>

\* The outcome of a try block: it raised, or it ran to its end with `value`
Raised == [raised |-> TRUE, value |-> None]

Completed(v) == [raised |-> FALSE, value |-> v]

\* datetime(int(year), int(month), int(day)) and days[date_obj.weekday()];
\* int() and datetime() raise ValueError
weekday_name(year, month, day) ==
    IF IntOk(year) /\ IntOk(month) /\ IntOk(day)
       /\ DateValid(IntVal(year), IntVal(month), IntVal(day))
    THEN Completed(days[Weekday(IntVal(year), IntVal(month), IntVal(day)) + 1])
    ELSE Raised

(***************************************************************************)
(* detect_csv_format                                                       *)
(***************************************************************************)
\* a variant that tests the staff markers before the client markers
detect_csv_format_staff_first(first_row) ==
    IF "first_name" \in DOMAIN first_row /\ "last_name" \in DOMAIN first_row
       /\ "first_name_1" \in DOMAIN first_row
    THEN "staff_task_report"
    ELSE IF "client_first_name" \in DOMAIN first_row /\ "client_last_name" \in DOMAIN first_row
            /\ "carer_name" \in DOMAIN first_row
    THEN "client_task_report"
    ELSE IF "rota_id" \in DOMAIN first_row /\ "carer_id" \in DOMAIN first_row
            /\ "client_id" \in DOMAIN first_row
    THEN "rota_schedule"
    ELSE "unknown"

detect_csv_format(first_row) ==
    IF "client_first_name" \in DOMAIN first_row /\ "client_last_name" \in DOMAIN first_row
       /\ "carer_name" \in DOMAIN first_row
    THEN "client_task_report"
    ELSE IF "first_name" \in DOMAIN first_row /\ "last_name" \in DOMAIN first_row
            /\ "first_name_1" \in DOMAIN first_row
    THEN "staff_task_report"
    ELSE IF "rota_id" \in DOMAIN first_row /\ "carer_id" \in DOMAIN first_row
            /\ "client_id" \in DOMAIN first_row
    THEN "rota_schedule"
    ELSE "unknown"

(***************************************************************************)
(* clean_client_task_data                                                  *)
(***************************************************************************)
client_required ==
    <<"client_id", "client_first_name", "client_last_name", "address",
      "carer_name", "task_date", "start_time", "end_time",
      "week_no", "dayname", "client_type">>

alt_required == <<"client_id", "client_first_name", "client_last_name", "address">>

\* [col for col in required if col not in first_row]
MissingFrom(required, first_row) ==
    SelectSeq(required, LAMBDA col : col \notin DOMAIN first_row)

\* the columns named by the ValueError of the first-row check, <<>> when it passes
client_alt_missing(first_row) ==
    IF MissingFrom(client_required, first_row) # <<>>
    THEN MissingFrom(alt_required, first_row)
    ELSE <<>>

\* a variant that also drops rows flagged cancelled
row_skipped_or_cancelled(row) ==
    \/ ~Truthy(Get(row, "client_id"))
    \/ Get(row, "cancelled") \in {<<"Y">>, <<"y">>}

\* a variant that also drops uncovered visits
row_skipped_or_uncovered(row) ==
    \/ ~Truthy(Get(row, "client_id"))
    \/ Get(row, "carer_id") = <<"-", "2">>

\* `if not row.get('client_id'): continue`
row_skipped(row) == ~Truthy(Get(row, "client_id"))

titles ==
    << <<"M", "i", "s", "s">>,
       <<"M", "s">>,
       <<"M", "r">>,
       <<"M", "r", "s">>,
       <<"D", "r">>,
       <<"P", "r", "o", "f">> >>

RECURSIVE remove_titles_first_only(_, _)
\* a variant that leaves the loop at the first title it removes
remove_titles_first_only(carer_name, k) ==
    IF k > Len(titles) THEN carer_name
    ELSE IF StartsWith(carer_name, titles[k] \o <<" ">>)
         THEN Strip(SliceFrom(carer_name, Len(titles[k])))
         ELSE remove_titles_first_only(carer_name, k + 1)

RECURSIVE remove_titles(_, _)
\* the loop `for title in titles` from its k-th title on
remove_titles(carer_name, k) ==
    IF k > Len(titles) THEN carer_name
    ELSE remove_titles(
            IF StartsWith(carer_name, titles[k] \o <<" ">>)
            THEN Strip(SliceFrom(carer_name, Len(titles[k])))
            ELSE carer_name,
            k + 1)

\* carer name without titles
client_carer_name(row) == remove_titles(Strip(PyOr(Get(row, "carer_name"), EmptyStr)), 1)

\* the body of the try block that derives the weekday from task_date
client_date_try(date_str) ==
    IF Contains(date_str, "/")
    THEN LET parts == SplitOn(date_str, "/")
         IN  IF Len(parts) # 3 THEN Raised
             ELSE IF Len(parts[1]) = 4
                  THEN weekday_name(parts[1], parts[2], parts[3])
                  ELSE weekday_name(parts[3], parts[2], parts[1])
    ELSE LET parts == SplitOn(date_str, "-")
         IN  IF Len(parts) # 3 THEN Raised
             ELSE weekday_name(parts[1], parts[2], parts[3])

\* a variant without the except clause: the raise leaves the try block
except_pass_reraise(outcome, unchanged) == outcome

\* try: ... except: pass  -- a raise leaves the variable as it was
except_pass(outcome, unchanged) ==
    IF outcome.raised THEN Completed(unchanged) ELSE outcome

client_day_of_week(row) ==
    LET day_of_week == Get(row, "dayname")
    IN  IF ~Truthy(day_of_week) /\ Truthy(Get(row, "task_date"))
        THEN except_pass(client_date_try(Get(row, "task_date")), day_of_week)
        ELSE Completed(day_of_week)

\* a variant that coerces the identifier to an int, 0 when it is not numeric
output_client_id_coerced(row) ==
    IF Truthy(Get(row, "client_id")) /\ IntOk(Get(row, "client_id"))
    THEN <<"INT">> \o Strip(Get(row, "client_id"))
    ELSE <<"INT", "0">>

\* 'client_id': row.get('client_id')
output_client_id(row) == Get(row, "client_id")

client_name_of(row) ==
    LET first_name == Strip(PyOr(Get(row, "client_first_name"), EmptyStr))
        last_name == Strip(PyOr(Get(row, "client_last_name"), EmptyStr))
    IN  Join(<<" ">>, SplitWs(Strip(Join(<<" ">>, <<first_name, last_name>>))))

client_cleaned_row(row, day_of_week) ==
    [client_name |-> client_name_of(row),
     address |-> Strip(PyOr(Get(row, "address"), EmptyStr)),
     client_id |-> output_client_id(row),
     staff_id |-> None,
     staff_name |-> client_carer_name(row),
     start_date |-> Get(row, "task_date"),
     start_time |-> Get(row, "start_time"),
     end_date |-> Get(row, "task_date"),
     end_time |-> Get(row, "end_time"),
     week_number |-> Get(row, "week_no"),
     day_of_week |-> day_of_week,
     client_type_text |-> Get(row, "client_type"),
     visit_time |-> Get(row, "visit_time"),
     charge |-> Get(row, "charge"),
     service_name |-> Get(row, "service_name"),
     completed |-> Get(row, "completed"),
     cancelled |-> Get(row, "cancelled")]

(***************************************************************************)
(* clean_rota_schedule_data (the definition in force, the second one)      *)
(***************************************************************************)
rota_required ==
    <<"client_id", "title", "first_name", "last_name", "address_1",
      "address_2", "town", "postcode", "carer_id", "start_date",
      "start_time", "end_date", "end_time", "week_number", "client_type_text">>

essential == <<"client_id", "start_date", "start_time", "end_date", "end_time">>

rota_missing_essential(first_row) ==
    IF MissingFrom(rota_required, first_row) # <<>>
    THEN MissingFrom(essential, first_row)
    ELSE <<>>

rota_client_name(row) ==
    LET title == Strip(PyOr(Get(row, "title"), EmptyStr))
        first_name == Strip(PyOr(Get(row, "first_name"), EmptyStr))
        last_name == Strip(PyOr(Get(row, "last_name"), EmptyStr))
    IN  Join(<<" ">>, SplitWs(Strip(Join(<<" ">>, <<title, first_name, last_name>>))))

\* `if part and str(part).strip() and str(part).strip().lower() not in ['nan', '']`
address_part_kept(part) ==
    /\ Truthy(part)
    /\ Strip(part) # EmptyStr
    /\ Lower(Strip(part)) \notin {<<"n", "a", "n">>, EmptyStr}

rota_address(row) ==
    LET parts == <<Get(row, "address_1"), Get(row, "address_2"),
                   Get(row, "town"), Get(row, "postcode")>>
        kept == SelectSeq(parts, address_part_kept)
    IN  Join(<<",", " ">>, [k \in 1..Len(kept) |-> Strip(kept[k])])

\* the body of the try block that derives the weekday from start_date
rota_date_try(date_str) ==
    LET date_parts == SplitOn(date_str, "/")
    IN  IF Len(date_parts) = 3
        THEN weekday_name(date_parts[3], date_parts[2], date_parts[1])
        ELSE Completed(None)

rota_day_of_week(row) ==
    IF Truthy(Get(row, "start_date"))
    THEN except_pass(rota_date_try(Get(row, "start_date")), None)
    ELSE Completed(None)

rota_cleaned_row(row, day_of_week) ==
    [client_name |-> rota_client_name(row),
     address |-> rota_address(row),
     client_id |-> output_client_id(row),
     staff_id |-> Get(row, "carer_id"),
     staff_name |-> None,
     start_date |-> Get(row, "start_date"),
     start_time |-> Get(row, "start_time"),
     end_date |-> Get(row, "end_date"),
     end_time |-> Get(row, "end_time"),
     week_number |-> Get(row, "week_number"),
     day_of_week |-> day_of_week,
     client_type_text |-> Get(row, "client_type_text")]

(***************************************************************************)
(* csv.DictReader: the header gives the keys; a record shorter than the    *)
(* header leaves its missing cells None (restval)                          *)
(***************************************************************************)
Range(seq) == {seq[k] : k \in 1..Len(seq)}

IndexOf(seq, x) == CHOOSE k \in 1..Len(seq) : seq[k] = x

DictRow(header, line) ==
    [col \in Range(header) |->
        IF IndexOf(header, col) <= Len(line) THEN line[IndexOf(header, col)] ELSE None]

\* list(csv.DictReader(io.StringIO(csv_content)))
DictReaderRows(header, recs) == [k \in 1..Len(recs) |-> DictRow(header, recs[k])]

(***************************************************************************)
(* Exceptions and responses                                                *)
(***************************************************************************)
NoExc == [type |-> "none", text |-> "", columns |-> <<>>]

\* an exception whose message is `text` followed by the list `columns`
Exc(type, text, columns) == [type |-> type, text |-> text, columns |-> columns]

NoResponse == [status |-> 0, body |-> <<>>]

\* jsonify({"error": message}), status
ErrorResponse(status, text, columns) ==
    [status |-> status, body |-> [error |-> [text |-> text, columns |-> columns]]]

\* a variant that answers 400
exception_response_400(e) == ErrorResponse(400, e.text, e.columns)

\* `except Exception as e: return jsonify({"error": str(e)}), 500`
exception_response(e) == ErrorResponse(500, e.text, e.columns)

\* a variant that inserts at the front
append_row_front(cleaned, cleaned_row) == <<cleaned_row>> \o cleaned

\* cleaned_rows.append(cleaned_row)
append_row(cleaned, cleaned_row) == Append(cleaned, cleaned_row)

\* len(set(row[key] for row in cleaned_data if row[key]))
unique_count(cleaned_data, key) ==
    Cardinality({cleaned_data[k][key] : k \in {j \in 1..Len(cleaned_data) : Truthy(cleaned_data[j][key])}})

success_response(format, original_rows, original_columns, cleaned_data) ==
    [status |-> 200,
     body |-> [status |-> "success",
               csv_format_detected |-> format,
               original_rows |-> original_rows,
               cleaned_rows |-> Len(cleaned_data),
               original_columns |-> original_columns,
               cleaned_columns |-> IF cleaned_data # <<>>
                                   THEN Cardinality(DOMAIN cleaned_data[1]) ELSE 0,
               summary |-> [unique_clients |-> unique_count(cleaned_data, "client_id"),
                            unique_staff |-> unique_count(cleaned_data, "staff_name")],
               data |-> cleaned_data]]

(***************************************************************************)
(* The requests explored.  A payload is given as DictReader sees it: the   *)
(* header and the records under it.                                        *)
(***************************************************************************)
Txt7 == <<"7">>

Txt8 == <<"8">>

Txt9 == <<"9">>

TxtX == <<"x">>

Txt007 == <<"0", "0", "7">>

TxtBlank == <<" ">>

TxtAnn == <<"A", "n", "n">>

TxtLee == <<" ", "L", "e", "e", " ">>

TxtMrAl == <<"M", "r", " ", "A", "l">>

TxtElm == <<"1", " ", " ", "E", "l", "m">>

TxtMon == <<"M", "o", "n">>

TxtMrs == <<"M", "r", "s">>

TxtS1 == <<"S", "1">>

TxtNan == <<"n", "a", "n">>

TxtNaN == <<"N", "a", "N">>

Txt5 == <<"5">>

TxtMinus2 == <<"-", "2">>

Txt3 == <<"3">>

TxtW == <<"w">>

TxtY == <<"Y">>

TxtLowerY == <<"y">>

TxtN == <<"N">>

TxtP == <<"P">>

TxtRoe == <<"R", "o", "e">>

TxtJohn == <<"J", "o", "h", "n">>

TxtDrake == <<"D", "r", "a", "k", "e">>

Dates ==
    { <<"1", "5", "/", "0", "1", "/", "2", "0", "2", "4">>,
      <<"3", "1", "/", "0", "2", "/", "2", "0", "2", "4">>,
      <<"a", "/", "b", "/", "c">>,
      <<"2", "0", "2", "4", "-", "0", "1", "-", "1", "5">>,
      <<"2", "0", "2", "4", "/", "0", "1", "/", "1", "5">>,
      <<"1", "/", "2">>,
      <<"2", "9", "/", "0", "2", "/", "2", "0", "2", "4">>,
      <<"2", "9", "/", "0", "2", "/", "2", "0", "2", "3">>,
      <<"0", "/", "1", "/", "2", "0", "2", "4">>,
      <<"1", "5", "/", "1", "3", "/", "2", "0", "2", "4">>,
      <<"2", "0", "2", "4", "-", "1">>,
      <<"2", "0", "2", "4", "0", "1", "1", "5">>,
      <<" ", "7", " ", "/", " ", "1", " ", "/", " ", "2", "0", "2", "4", " ">>,
      <<"1", "/", "1", "/", "0">>,
      <<"2", "0", "2", "4", "-", "0", "2", "-", "3", "0">>,
      <<"/", "/">>,
      <<"1", "/", "1", "/", "2", "0", "2", "4", "/", "5">> }

\* a cell of an ordinary record, by column
BaseCell(col) ==
    CASE col = "client_id" -> Txt7
      [] col \in {"client_first_name", "first_name", "first_name_1"} -> TxtAnn
      [] col \in {"client_last_name", "last_name"} -> TxtLee
      [] col = "last_name_1" -> TxtRoe
      [] col = "carer_name" -> TxtMrAl
      [] col \in {"task_date", "start_date", "end_date"} -> <<"1", "5", "/", "0", "1", "/", "2", "0", "2", "4">>
      [] col \in {"address", "address_1"} -> TxtElm
      [] col = "address_2" -> EmptyStr
      [] col = "town" -> TxtNan
      [] col = "postcode" -> TxtS1
      [] col = "dayname" -> TxtMon
      [] col = "title" -> TxtMrs
      [] col \in {"carer_id", "employee_id"} -> Txt5
      [] col \in {"week_no", "week_number"} -> Txt3
      [] col = "cancelled" -> TxtN
      [] col \in {"client_type", "client_type_text"} -> TxtP
      [] OTHER -> Txt9

\* the record under `header` whose cells are those of `over` where it names
\* the column and ordinary otherwise
LineOf(header, over) ==
    [k \in 1..Len(header) |->
        IF header[k] \in DOMAIN over THEN over[header[k]] ELSE BaseCell(header[k])]

ClientHeader ==
    <<"client_id", "client_first_name", "client_last_name", "carer_name", "task_date",
      "start_time", "end_time", "week_no", "dayname", "address", "cancelled", "client_type">>

ClientAltHeader ==
    <<"client_first_name", "client_last_name", "client_id", "address", "carer_name",
      "task_date", "completed">>

RotaHeader == <<"rota_id">> \o rota_required

RotaEssentialHeader ==
    <<"rota_id", "carer_id", "client_id", "start_date", "start_time", "end_date", "end_time">>

StaffHeader ==
    <<"client_id", "title", "first_name", "last_name", "address_1",
      "address_2", "town", "postcode", "employee_id", "first_name_1",
      "last_name_1", "start_date", "start_time", "end_date", "end_time",
      "week_number", "client_type_text">>

MarkerColumns ==
    <<"client_id", "carer_id", "rota_id", "first_name_1", "last_name", "first_name",
      "carer_name", "client_last_name", "client_first_name">>

\* every header made of marker columns, in the order of MarkerColumns
MarkerHeaders ==
    {SelectSeq(MarkerColumns, LAMBDA col : col \in chosen) : chosen \in SUBSET Range(MarkerColumns)}

TableHeaders ==
    {ClientHeader, ClientAltHeader, RotaHeader, RotaEssentialHeader, StaffHeader,
     <<"name", "date">>, <<"date", "name", "client_id">>,
     <<"carer_name", "client_last_name", "client_first_name", "client_id">>,
     <<"rota_id", "carer_id", "client_id", "start_date">>}

Empty == [col \in {} |-> EmptyStr]

\* the records of a table of several rows
TableOverrides ==
    {Empty,
     "client_id" :> EmptyStr,
     "client_id" :> TxtX,
     ("client_id" :> Txt8) @@ ("cancelled" :> TxtY) @@ ("carer_id" :> TxtMinus2)
        @@ ("dayname" :> EmptyStr) @@ ("task_date" :> <<"3", "1", "/", "0", "2", "/", "2", "0", "2", "4">>)
        @@ ("start_date" :> <<"3", "1", "/", "0", "2", "/", "2", "0", "2", "4">>) @@ ("week_no" :> EmptyStr)
        @@ ("week_number" :> EmptyStr),
     ("client_id" :> Txt9) @@ ("cancelled" :> TxtLowerY) @@ ("dayname" :> EmptyStr)
        @@ ("week_no" :> TxtW) @@ ("week_number" :> TxtW) @@ ("carer_name" :> TxtJohn)}

TableLines(header) ==
    {LineOf(header, over) : over \in TableOverrides}
        \cup {SubSeq(LineOf(header, Empty), 1, IF Len(header) > 3 THEN 3 ELSE 1)}

Tokens == Range(titles) \cup {TxtJohn, TxtDrake}

RECURSIVE TokenSeqs(_)
TokenSeqs(n) ==
    IF n = 0 THEN {<<>>}
    ELSE {Append(ts, t) : ts \in TokenSeqs(n - 1), t \in Tokens}

\* names of 1..MaxTokens tokens, single-spaced, and the same padded and
\* double-spaced after the first token
Names ==
    LET seqs == UNION {TokenSeqs(n) : n \in 1..MaxTokens}
    IN  {Join(<<" ">>, ts) : ts \in seqs}
            \cup {<<" ">> \o ts[1] \o <<" ", " ">> \o Join(<<" ">>, Tail(ts)) \o <<" ">> : ts \in seqs}

AddressParts == {TxtElm, EmptyStr, TxtNan, TxtNaN, TxtBlank}

\* the records of a table of one row
OneRowOverrides ==
    {("carer_name" :> name) : name \in Names}
    \cup {("task_date" :> d) @@ ("start_date" :> d) @@ ("dayname" :> dn) :
                d \in Dates, dn \in {EmptyStr, TxtMon}}
    \cup {("client_id" :> cid) @@ ("week_no" :> wk) @@ ("week_number" :> wk)
            @@ ("cancelled" :> ca) @@ ("carer_id" :> st) :
                cid \in {Txt7, TxtX, Txt007, TxtBlank}, wk \in {Txt3, EmptyStr, TxtW},
                ca \in {TxtY, TxtLowerY, TxtN, EmptyStr}, st \in {TxtMinus2, Txt5, EmptyStr}}
    \cup {("address_1" :> a) @@ ("town" :> b) : a \in AddressParts, b \in AddressParts}

RECURSIVE SeqsUpTo(_, _)
SeqsUpTo(S, n) ==
    IF n = 0 THEN {<<>>}
    ELSE SeqsUpTo(S, n - 1) \cup {Append(q, x) : q \in {r \in SeqsUpTo(S, n - 1) : Len(r) = n - 1}, x \in S}

\* payloads: <<kind of request, header, records>>
ContentKinds == {"file_csv", "json_csv_data"}

RejectedKinds == {"file_not_csv", "file_undecodable", "json_without_csv_data", "no_file_no_json"}

Payloads ==
    {<<kind, h, recs>> : kind \in ContentKinds, h \in {<<>>}, recs \in {<<>>}}
    \cup {<<kind, <<>>, <<>>>> : kind \in RejectedKinds}
    \cup UNION {{<<kind, h, recs>> : kind \in ContentKinds, recs \in SeqsUpTo(TableLines(h), MaxRows)} :
                    h \in TableHeaders}
    \cup {<<"json_csv_data", h, <<LineOf(h, Empty)>> >> : h \in MarkerHeaders}
    \cup {<<"file_csv", h, <<LineOf(h, over)>> >> :
                    h \in {ClientHeader, RotaHeader}, over \in OneRowOverrides}

(***************************************************************************)
(* POST /clean (clean_data), step by step                                  *)
(***************************************************************************)
Init ==
    /\ \E p \in Payloads :
        /\ request = p[1]
        /\ fieldnames = p[2]
        /\ lines = p[3]
    /\ pc = "start"
    /\ rows = <<>>
    /\ csv_format = "none"
    /\ idx = 1
    /\ cleaned_rows = <<>>
    /\ exc = NoExc
    /\ response = NoResponse

\* the payload is neither a .csv upload nor JSON with csv_data: HTTP 400
RejectPayload ==
    /\ pc = "start"
    /\ request \in {"file_not_csv", "json_without_csv_data", "no_file_no_json"}
    /\ response' = ErrorResponse(400,
                        CASE request = "file_not_csv" -> "Please upload a CSV file"
                          [] request = "json_without_csv_data" -> "Send csv_data in JSON"
                          [] OTHER -> "Send CSV file or JSON data",
                        <<>>)
    /\ pc' = "done"
    /\ UNCHANGED <<request, fieldnames, lines, rows, csv_format, idx, cleaned_rows, exc>>

\* file.read().decode('utf-8') raises on bytes that are not UTF-8
DecodeFails ==
    /\ pc = "start"
    /\ request = "file_undecodable"
    /\ exc' = Exc("UnicodeDecodeError", "'utf-8' codec can't decode byte", <<>>)
    /\ pc' = "except"
    /\ UNCHANGED <<request, fieldnames, lines, rows, csv_format, idx, cleaned_rows, response>>

\* csv_content is read; clean_csv_data parses it, finds no rows or detects
\* the layout of the first row
ParseAndDetect ==
    /\ pc = "start"
    /\ request \in ContentKinds
    /\ rows' = DictReaderRows(fieldnames, lines)
    /\ IF rows' = <<>>
       THEN /\ exc' = Exc("ValueError", "No data found in CSV", <<>>)
            /\ pc' = "except"
            /\ UNCHANGED csv_format
       ELSE /\ csv_format' = detect_csv_format(rows'[1])
            /\ pc' = "dispatch"
            /\ UNCHANGED exc
    /\ UNCHANGED <<request, fieldnames, lines, idx, cleaned_rows, response>>

\* clean_client_task_data up to its loop: the first-row check
ClientCheckColumns ==
    /\ pc = "dispatch"
    /\ csv_format = "client_task_report"
    /\ IF client_alt_missing(rows[1]) # <<>>
       THEN /\ exc' = Exc("ValueError", "Missing essential client columns: ",
                          client_alt_missing(rows[1]))
            /\ pc' = "except"
       ELSE /\ pc' = "client_loop"
            /\ UNCHANGED exc
    /\ UNCHANGED <<request, fieldnames, lines, rows, csv_format, idx, cleaned_rows, response>>

\* clean_rota_schedule_data up to its loop: the first-row check
RotaCheckColumns ==
    /\ pc = "dispatch"
    /\ csv_format = "rota_schedule"
    /\ IF rota_missing_essential(rows[1]) # <<>>
       THEN /\ exc' = Exc("ValueError", "Missing essential columns: ",
                          rota_missing_essential(rows[1]))
            /\ pc' = "except"
       ELSE /\ pc' = "rota_loop"
            /\ UNCHANGED exc
    /\ UNCHANGED <<request, fieldnames, lines, rows, csv_format, idx, cleaned_rows, response>>

\* `return clean_staff_task_data(rows), csv_format`: no such function is
\* defined (its body follows the return of clean_rota_schedule_data), so the
\* name lookup raises NameError
StaffCallUndefined ==
    /\ pc = "dispatch"
    /\ csv_format = "staff_task_report"
    /\ exc' = Exc("NameError", "name 'clean_staff_task_data' is not defined", <<>>)
    /\ pc' = "except"
    /\ UNCHANGED <<request, fieldnames, lines, rows, csv_format, idx, cleaned_rows, response>>

\* a variant that lists the columns last to first
available_columns_reversed(first_row) ==
    LET cols == SelectSeq(fieldnames, LAMBDA col : col \in DOMAIN first_row)
    IN  [k \in 1..Len(cols) |-> cols[Len(cols) + 1 - k]]

\* list(rows[0].keys()): the header, in order
available_columns(first_row) ==
    SelectSeq(fieldnames, LAMBDA col : col \in DOMAIN first_row)

UnknownFormat ==
    /\ pc = "dispatch"
    /\ csv_format = "unknown"
    /\ exc' = Exc("ValueError", "Unknown CSV format. Available columns: ",
                  available_columns(rows[1]))
    /\ pc' = "except"
    /\ UNCHANGED <<request, fieldnames, lines, rows, csv_format, idx, cleaned_rows, response>>

\* one iteration of `for row in rows` of clean_client_task_data
ClientRow ==
    /\ pc = "client_loop"
    /\ idx <= Len(rows)
    /\ LET row == rows[idx]
           day == client_day_of_week(row)
       IN  IF row_skipped(row)
           THEN UNCHANGED <<cleaned_rows, exc, pc>> /\ idx' = idx + 1
           ELSE IF day.raised
           THEN /\ exc' = Exc("ValueError", "invalid date", <<>>)
                /\ pc' = "except"
                /\ UNCHANGED <<cleaned_rows, idx>>
           ELSE /\ cleaned_rows' = append_row(cleaned_rows, client_cleaned_row(row, day.value))
                /\ idx' = idx + 1
                /\ UNCHANGED <<exc, pc>>
    /\ UNCHANGED <<request, fieldnames, lines, rows, csv_format, response>>

\* one iteration of `for row in rows` of clean_rota_schedule_data
RotaRow ==
    /\ pc = "rota_loop"
    /\ idx <= Len(rows)
    /\ LET row == rows[idx]
           day == rota_day_of_week(row)
       IN  IF row_skipped(row)
           THEN UNCHANGED <<cleaned_rows, exc, pc>> /\ idx' = idx + 1
           ELSE IF day.raised
           THEN /\ exc' = Exc("ValueError", "invalid date", <<>>)
                /\ pc' = "except"
                /\ UNCHANGED <<cleaned_rows, idx>>
           ELSE /\ cleaned_rows' = append_row(cleaned_rows, rota_cleaned_row(row, day.value))
                /\ idx' = idx + 1
                /\ UNCHANGED <<exc, pc>>
    /\ UNCHANGED <<request, fieldnames, lines, rows, csv_format, response>>

\* `return cleaned_rows`, the statistics and the success response
Respond ==
    /\ pc \in {"client_loop", "rota_loop"}
    /\ idx > Len(rows)
    /\ response' = success_response(csv_format, Len(DictReaderRows(fieldnames, lines)),
                                    Len(fieldnames), cleaned_rows)
    /\ pc' = "done"
    /\ UNCHANGED <<request, fieldnames, lines, rows, csv_format, idx, cleaned_rows, exc>>

\* `except Exception as e`
HandleException ==
    /\ pc = "except"
    /\ response' = exception_response(exc)
    /\ pc' = "done"
    /\ UNCHANGED <<request, fieldnames, lines, rows, csv_format, idx, cleaned_rows, exc>>

Next ==
    \/ RejectPayload
    \/ DecodeFails
    \/ ParseAndDetect
    \/ ClientCheckColumns
    \/ RotaCheckColumns
    \/ StaffCallUndefined
    \/ UnknownFormat
    \/ ClientRow
    \/ RotaRow
    \/ Respond
    \/ HandleException

Spec == Init /\ [][Next]_vars

(***************************************************************************)
(* Properties                                                              *)
(***************************************************************************)
Finished == pc = "done"

Succeeded == pc = "done" /\ response.status = 200

Columns == Range(fieldnames)

MarkerSets ==
    << {"client_first_name", "client_last_name", "carer_name"},
       {"first_name", "last_name", "first_name_1"},
       {"rota_id", "carer_id", "client_id"} >>

Tags == <<"client_task_report", "staff_task_report", "rota_schedule">>

Matching == {k \in 1..3 : MarkerSets[k] \subseteq Columns}

\* the layout is recognised and the first-row check of its cleaning function passes
FirstRowAccepted ==
    /\ request \in ContentKinds
    /\ lines # <<>>
    /\ \/ 1 \in Matching /\ Range(alt_required) \subseteq Columns
       \/ Matching = {3} /\ Range(essential) \subseteq Columns

\* the input rows the loops keep, in input order
AcceptedRows ==
    SelectSeq(DictReaderRows(fieldnames, lines),
              LAMBDA r : Get(r, "client_id") # None /\ Get(r, "client_id") # <<>>)

\* the record the cleaning function of the detected layout makes of a row
RecordOf(row) ==
    IF csv_format = "client_task_report"
    THEN client_cleaned_row(row, client_day_of_week(row).value)
    ELSE rota_cleaned_row(row, rota_day_of_week(row).value)

\* the k-th smallest element of a set of numbers
Kth(S, k) == CHOOSE x \in S : Cardinality({y \in S : y < x}) = k - 1

\* C1: at every point of the loops and in the response, the cleaned rows are
\* the records of a strictly increasing selection of input rows (one distinct
\* input row per record, input order kept), so cleaned_rows <= original_rows.
C1_OrderPreservingSubsequence ==
    pc \in {"client_loop", "rota_loop", "done"} =>
        /\ Len(cleaned_rows) <= Len(rows)
        /\ \E S \in SUBSET (1..Len(rows)) :
            /\ Cardinality(S) = Len(cleaned_rows)
            /\ \A k \in 1..Len(cleaned_rows) : cleaned_rows[k] = RecordOf(rows[Kth(S, k)])
        /\ Succeeded =>
            /\ response.body.data = cleaned_rows
            /\ response.body.original_rows = Len(lines)
            /\ response.body.cleaned_rows = Len(cleaned_rows)
            /\ response.body.cleaned_rows <= response.body.original_rows

\* C1 witness: a successful request that kept two different rows and dropped one
C1_Witness ==
    /\ Succeeded
    /\ Len(cleaned_rows) = 2
    /\ Len(rows) = 3
    /\ cleaned_rows[1] # cleaned_rows[2]

\* C2: the detected tag is one of the four; it is the tag of the first marker
\* set contained in the first row's columns, and unknown exactly when no
\* marker set is contained; detection itself raises nothing.
C2_FirstMatchWins ==
    (request \in ContentKinds /\ lines # <<>> /\ pc # "start") =>
        /\ csv_format \in Range(Tags) \cup {"unknown"}
        /\ Matching # {} => csv_format = Tags[Kth(Matching, 1)]
        /\ (csv_format = "unknown") <=> (Matching = {})
        /\ pc = "dispatch" => exc = NoExc

\* C2 witness: all three marker sets are present and the first one wins
C2_Witness ==
    /\ pc = "dispatch"
    /\ Matching = {1, 2, 3}
    /\ csv_format = "client_task_report"

\* C3: a request whose first row is detected as staff_task_report succeeds with
\* one record per row that has a non-empty client_id, tagged staff_task_report.
C3_StaffReportHandled ==
    (Finished /\ csv_format = "staff_task_report") =>
        /\ response.status = 200
        /\ response.body.csv_format_detected = "staff_task_report"
        /\ response.body.cleaned_rows = Len(AcceptedRows)

\* no data rows, an unrecognised layout, or a first row without the columns its
\* cleaning function insists on
StructuralError ==
    /\ request \in ContentKinds
    /\ \/ lines = <<>>
       \/ Matching = {}
       \/ 1 \in Matching /\ ~(Range(alt_required) \subseteq Columns)
       \/ Matching = {3} /\ ~(Range(essential) \subseteq Columns)

\* C4 as stated: structural errors are answered with HTTP 400, an error body
\* and nothing partial.
C4_StructuralErrorIs400 ==
    (Finished /\ StructuralError) =>
        /\ response.status = 400
        /\ DOMAIN response.body = {"error"}

\* C4 amended: structural errors (no data rows, unrecognised layout, first row
\* without the essential columns) are answered with HTTP 500, a body holding
\* only the error key, and no cleaned row was produced.
C4_StructuralErrorIs500 ==
    (Finished /\ StructuralError) =>
        /\ response.status = 500
        /\ DOMAIN response.body = {"error"}
        /\ exc.type = "ValueError"
        /\ cleaned_rows = <<>>

\* C4 witness: a client task report without its essential columns was answered
C4_Witness ==
    /\ Finished
    /\ lines # <<>>
    /\ 1 \in Matching
    /\ "address" \notin Columns
    /\ response.status = 500

\* C5: when the first row contains none of the marker sets, no cleaned row is
\* produced and the response holds only an error whose message lists the first
\* row's columns in column order.
C5_UnknownLayoutNamesColumns ==
    (Finished /\ request \in ContentKinds /\ lines # <<>> /\ Matching = {}) =>
        /\ cleaned_rows = <<>>
        /\ DOMAIN response.body = {"error"}
        /\ response.body.error.text = "Unknown CSV format. Available columns: "
        /\ response.body.error.columns = fieldnames

\* C5 witness: an unrecognised header of several columns was answered
C5_Witness ==
    /\ Finished
    /\ lines # <<>>
    /\ Matching = {}
    /\ Len(fieldnames) >= 3
    /\ DOMAIN response.body = {"error"}

IsCancelled(row) == Get(row, "cancelled") \in {<<"Y">>, <<"y">>}

IsUncovered(row) == Get(row, "carer_id") = <<"-", "2">>

WeekColumn == IF csv_format = "client_task_report" THEN "week_no" ELSE "week_number"

IsNumeric(v) == v # None /\ IntOk(v)

C9_MappersNeverRaise ==
    (FirstRowAccepted /\ pc \notin {"start", "dispatch"}) =>
        /\ pc # "except"
        /\ exc = NoExc
        /\ Finished =>
            /\ response.status = 200
            /\ idx = Len(rows) + 1
            /\ Len(cleaned_rows) = Len(AcceptedRows)

\* the try block of the detected layout raises on this cell
DateRaises(date_str) ==
    IF csv_format = "client_task_report"
    THEN client_date_try(date_str).raised
    ELSE rota_date_try(date_str).raised

\* C9 witness: a row with the impossible date 31/02/2024 and no weekday name,
\* and a row with a missing (None) date cell, were mapped in a successful request
C9_Witness ==
    /\ Succeeded
    /\ Len(cleaned_rows) >= 2
    /\ \E k \in 1..Len(cleaned_rows) :
        /\ cleaned_rows[k].start_date = <<"3", "1", "/", "0", "2", "/", "2", "0", "2", "4">>
        /\ DateRaises(cleaned_rows[k].start_date)
        /\ ~Truthy(cleaned_rows[k].day_of_week)
    /\ \E k \in 1..Len(cleaned_rows) : cleaned_rows[k].start_date = None

\* the titles a name starts with (title and a space), from position `from` on
LeadingTitles(name, from) ==
    {k \in from..Len(titles) : StartsWith(name, titles[k] \o <<" ">>)}

\* the trimmed carer name of the k-th accepted row
TrimmedCarer(k) ==
    LET v == Get(AcceptedRows[k], "carer_name")
    IN  Strip(IF v = None THEN <<>> ELSE v)

\* C10 as stated: exactly the leading honorific is removed, also when the
\* remainder begins with another honorific; without one the name is unchanged.
C10_OnlyLeadingTokenRemoved ==
    (csv_format = "client_task_report" /\ pc \in {"client_loop", "done"}) =>
        \A k \in 1..Len(cleaned_rows) :
            LET name == TrimmedCarer(k)
                lead == LeadingTitles(name, 1)
            IN  IF lead = {}
                THEN cleaned_rows[k].staff_name = name
                ELSE cleaned_rows[k].staff_name
                        = Strip(SliceFrom(name, Len(titles[Kth(lead, 1)])))

RECURSIVE StripAscending(_, _)
\* the name without its leading honorifics, as long as each one stands later
\* in the list of titles than the one removed before it
StripAscending(name, from) ==
    IF LeadingTitles(name, from) = {} THEN name
    ELSE LET k == Kth(LeadingTitles(name, from), 1)
         IN  StripAscending(Strip(SliceFrom(name, Len(titles[k]))), k + 1)

\* C10 amended: without a leading honorific staff_name is the trimmed name;
\* with one, it is removed and the rest trimmed, and as long as what remains
\* starts with an honorific that stands later in Miss, Ms, Mr, Mrs, Dr, Prof
\* than the one just removed, that one is removed too; a remainder starting
\* with the same or an earlier honorific is kept.
C10_AscendingTitlesRemoved ==
    (csv_format = "client_task_report" /\ pc \in {"client_loop", "done"}) =>
        \A k \in 1..Len(cleaned_rows) :
            LET name == TrimmedCarer(k)
                lead == LeadingTitles(name, 1)
                rest == Strip(SliceFrom(name, Len(titles[Kth(lead, 1)])))
            IN  /\ lead = {} => cleaned_rows[k].staff_name = name
                /\ (lead # {} /\ LeadingTitles(rest, Kth(lead, 1) + 1) = {})
                        => cleaned_rows[k].staff_name = rest
                /\ cleaned_rows[k].staff_name = StripAscending(name, 1)

\* C10 witness: "Miss Mr John" came out as "John"
C10_Witness ==
    /\ Succeeded
    /\ csv_format = "client_task_report"
    /\ \E k \in 1..Len(cleaned_rows) :
        /\ TrimmedCarer(k) = <<"M", "i", "s", "s", " ", "M", "r", " ", "J", "o", "h", "n">>
        /\ cleaned_rows[k].staff_name = <<"J", "o", "h", "n">>

====
